---- MODULE Spec2Model ----
(***************************************************************************)
(* The file-and-index lifecycle of the Deep Researcher:                    *)
(*   file_manager.py     FileManager (upload, list, remove, info,          *)
(*                       rebuild_index, add_file_to_index, index stats)    *)
(*   data_loader.py      load_and_chunk_data, load_all_text_files          *)
(*   build_index.py      build_index_from_chunks, save_index_and_chunks    *)
(*   deep_researcher.py  DeepResearcher (__init__, load_existing_index,    *)
(*                       add_documents, save_index)                        *)
(*                                                                         *)
(* The words of a document are numbered from 1.  A text is a document and  *)
(* its number of words; a run [doc, lo, hi] stands for the words lo..hi of *)
(* a document, in order (empty when hi < lo).  text.split() is the run of  *)
(* all its words, a chunk is the run " ".join put into it.  A vector is    *)
(* what the embedder returns for a chunk.  The two persisted files live in *)
(* `fs`, keyed by path; a file is absent, a serialized FAISS index, or a   *)
(* JSON chunk list.                                                        *)
(*                                                                         *)
(* The embedder (SentenceTransformer) and the writes of the two persisted  *)
(* files are calls into libraries that may raise; the place where a call   *)
(* raises is an input of the operation (Faults).                           *)
(*                                                                         *)
(* Spec is the FileManager on its data directory.  ChunkSpec calls the     *)
(* chunker alone, on texts and chunk sizes drawn from bounded sets;        *)
(* `chunker` records the call and what it returned.  ResearchSpec drives   *)
(* one DeepResearcher object through loading, building, adding and saving, *)
(* SearchSpec builds an index and searches it with a DeepResearcher or a   *)
(* SearchEngine: `inst` is the object, `ret` what its last call returned,  *)
(* raised and printed.  ConcSpec runs rebuild_index in two processes, each *)
(* file read and file write a step of its own: `procs` is each process's   *)
(* position and the chunks it loaded, `overlap` records that one call has  *)
(* started while another was running.  HistorySpec is the conversation     *)
(* history of enhancements.py and the history command of cli.py: `conv` is  *)
(* the history in memory, the history file and the entries last returned.  *)
(***************************************************************************)
EXTENDS Integers, Sequences, FiniteSets, TLC

VARIABLES dataDir, fs, op, chunker, inst, ret, procs, overlap, conv

vars == <<dataDir, fs, op, chunker, inst, ret, procs, overlap, conv>>

\* what the FileManager operations leave alone
aside == <<chunker, inst, ret, procs, overlap, conv>>

-----------------------------------------------------------------------------
(* Bounds of the model *)

\* words of a short document (one chunk)
ShortWords == 3
\* words a long document has beyond one full chunk (two chunks)
ExtraWords == 1
\* ChunkSpec: the longest text chunked, and the largest chunk size tried
MaxChunkWords == 12
MaxTryChunk == 6
\* ResearchSpec: the most documents one object holds
MaxDocs == 3
\* SearchSpec: the largest k searched for, the most chunks of an index searched
MaxK == 3
MaxSearched == 3
\* entries of a conversation history, and the largest num_entries asked for
MaxHistory == 3
MaxLimit == 4

-----------------------------------------------------------------------------
(* Program constants *)

\* chunk_size=200 passed by every FileManager call of the chunker
ChunkSize == 200

\* FileManager.__init__ defaults (every caller uses them for the two paths)
FMIndexFile == "document.index"
FMChunksFile == "chunks.json"

\* DeepResearcher.__init__ default of chunks_file
DRDefaultChunksFile == "chunks.json"

Paths == {"document.index", "chunks.json"}

-----------------------------------------------------------------------------
(* Texts and the files offered for upload *)

\* the text of document d, n words long
Doc(d, n) == [doc |-> d, words |-> n]

\* The paths a caller can pass to upload_file.  kind "file" exists and can
\* be copied, "dir" exists but copy2 raises on it, "none" does not exist.
Sources ==
  { [path |-> "/in/a.txt",   base |-> "a.txt", kind |-> "file",
     text |-> Doc(1, ChunkSize + ExtraWords)],
    [path |-> "/in/b.txt",   base |-> "b.txt", kind |-> "file",
     text |-> Doc(2, ShortWords)],
    [path |-> "/alt/b.txt",  base |-> "b.txt", kind |-> "file",
     text |-> Doc(4, 0)],
    [path |-> "/in/n.md",    base |-> "n.md",  kind |-> "file",
     text |-> Doc(3, ShortWords)],
    [path |-> "/in/sub",     base |-> "sub",   kind |-> "dir",
     text |-> Doc(0, 0)],
    [path |-> "/in/gone.txt", base |-> "gone.txt", kind |-> "none",
     text |-> Doc(0, 0)] }

\* file names a caller passes to remove / info / add-to-index
Names == {"a.txt", "b.txt", "n.md"}

\* filename.endswith('.txt') / glob('*.txt')
IsTxt(name) == name \in {"a.txt", "b.txt", "gone.txt"}

\* where an external call raises during an index operation
Faults == {"none", "model", "encode", "write_index", "write_chunks"}

-----------------------------------------------------------------------------
(* The data directory: its entries in the order the file system lists them *)

DirNames(dir) == { dir[i].name : i \in 1..Len(dir) }

Exists(dir, name) == name \in DirNames(dir)

PosOf(dir, name) == CHOOSE i \in 1..Len(dir) : dir[i].name = name

ReadText(dir, name) == dir[PosOf(dir, name)].text

Min(a, b) == IF a < b THEN a ELSE b

InsertAt(s, k, e) == SubSeq(s, 1, k - 1) \o <<e>> \o SubSeq(s, k, Len(s))

RemoveAt(s, k) == SubSeq(s, 1, k - 1) \o SubSeq(s, k + 1, Len(s))

-----------------------------------------------------------------------------
(* data_loader.py *)

\* text.split(): all the words of the text
Split(text) == [doc |-> text.doc, lo |-> 1, hi |-> text.words]

\* len(words)
WordCount(words) == IF words.hi < words.lo THEN 0 ELSE words.hi - words.lo + 1

\* words[i:i+chunk_size], i counted from 0
Slice(words, i, chunk_size) ==
  [doc |-> words.doc,
   lo |-> words.lo + i,
   hi |-> IF i + chunk_size < WordCount(words)
            THEN words.lo + i + chunk_size - 1
            ELSE words.hi]

\* the chunk loop stopping before a chunk that would not be full
RECURSIVE ChunkFromFullOnly(_, _, _)
ChunkFromFullOnly(words, i, chunk_size) ==
  IF i + chunk_size > WordCount(words) THEN <<>>
  ELSE <<Slice(words, i, chunk_size)>> \o ChunkFromFullOnly(words, i + chunk_size, chunk_size)

\* the chunk loop running once more when the words end on a chunk boundary
RECURSIVE ChunkFromInclusive(_, _, _)
ChunkFromInclusive(words, i, chunk_size) ==
  IF i > WordCount(words) THEN <<>>
  ELSE <<Slice(words, i, chunk_size)>> \o ChunkFromInclusive(words, i + chunk_size, chunk_size)

\* for i in range(i, len(words), chunk_size):
\*     chunks.append(" ".join(words[i:i+chunk_size]))
RECURSIVE ChunkFrom(_, _, _)
ChunkFrom(words, i, chunk_size) ==
  IF i >= WordCount(words) THEN <<>>
  ELSE <<Slice(words, i, chunk_size)>> \o ChunkFrom(words, i + chunk_size, chunk_size)

\* the chunks of a text: range(0, len(words), chunk_size) raises on a step of
\* 0, which the function catches to return [], and is empty on a negative step
Chunks(text, chunk_size) ==
  IF chunk_size <= 0 THEN <<>> ELSE ChunkFrom(Split(text), 0, chunk_size)

\* load_and_chunk_data(file_path, chunk_size); a missing file gives []
load_and_chunk_data(dir, name, chunk_size) ==
  IF ~Exists(dir, name) THEN <<>>
  ELSE Chunks(ReadText(dir, name), chunk_size)

\* load_all_text_files without the endswith('.txt') test
RECURSIVE load_all_files(_, _)
load_all_files(dir, chunk_size) ==
  IF dir = <<>> THEN <<>>
  ELSE Chunks(Head(dir).text, chunk_size)
       \o load_all_files(Tail(dir), chunk_size)

\* load_all_text_files(data_directory, chunk_size): every *.txt entry, in
\* listing order
RECURSIVE load_all_text_files(_, _)
load_all_text_files(dir, chunk_size) ==
  IF dir = <<>> THEN <<>>
  ELSE (IF IsTxt(Head(dir).name)
          THEN Chunks(Head(dir).text, chunk_size)
          ELSE <<>>)
       \o load_all_text_files(Tail(dir), chunk_size)

-----------------------------------------------------------------------------
(* The embedder and the vector index *)

\* model.encode of one chunk: a vector determined by the chunk
Embed(chunk) == <<chunk.doc, chunk.lo, chunk.hi>>

\* model.encode(texts)
create_embeddings(texts) == [i \in 1..Len(texts) |-> Embed(texts[i])]

NoIndex == [kind |-> "none"]

\* faiss.IndexFlatL2(dim); index.add(embeddings)
IndexFlatL2(embeddings) == [kind |-> "faiss", metric |-> "L2", vecs |-> embeddings]

\* faiss.IndexFlatIP(dim); index.add(embeddings)
IndexFlatIP(embeddings) == [kind |-> "faiss", metric |-> "IP", vecs |-> embeddings]

\* index.ntotal
ntotal(index) == Len(index.vecs)

\* the orders in which an index of n vectors can rank its min(n, k) nearest
\* positions (0-based) for a query: which one is the query's and the metric's
Rankings(n, k) ==
  { s \in [1..Min(n, k) -> 0..(n - 1)] : \A i, j \in 1..Min(n, k) : i # j => s[i] # s[j] }

\* index.search(x, k): always k labels, the ranked positions first and -1 in
\* the place of every neighbour the index does not have
IndexSearch(ranking, k) == ranking \o [i \in 1..(k - Len(ranking)) |-> -1]

\* list[i] of Python: defined for -len <= i < len, negative i counts from the end
PyIndexOk(list, i) == -Len(list) <= i /\ i < Len(list)

PyIndex(list, i) == list[IF i < 0 THEN Len(list) + i + 1 ELSE i + 1]

-----------------------------------------------------------------------------
(* Persisted files *)

Absent == [kind |-> "absent"]

JsonFile(chunks) == [kind |-> "json", chunks |-> chunks]

\* os.path.exists(path)
PathExists(f, path) == f[path].kind # "absent"

\* faiss.read_index(path) succeeds on a serialized index only
ReadIndexOk(f, path) == f[path].kind = "faiss"

\* json.load succeeds on a JSON file only
JsonLoadOk(f, path) == f[path].kind = "json"

-----------------------------------------------------------------------------
(* build_index.py *)

\* build_index_from_chunks(all_chunks): raises on no chunks, and where the
\* model load or the encoding raises; otherwise an L2 index of the chunks'
\* embeddings, and the chunks
build_index_from_chunks(all_chunks, fault) ==
  IF all_chunks = <<>> \/ fault \in {"model", "encode"}
    THEN [raised |-> TRUE, index |-> NoIndex, chunks |-> <<>>]
    ELSE [raised |-> FALSE,
          index |-> IndexFlatL2(create_embeddings(all_chunks)),
          chunks |-> all_chunks]

\* the save writing the chunk list first and the index second
save_chunks_and_index(f, index, chunks, index_filename, chunks_filename, fault) ==
  IF fault = "write_chunks" THEN [raised |-> TRUE, fs |-> f]
  ELSE LET f1 == [f EXCEPT ![chunks_filename] = JsonFile(chunks)]
       IN IF fault = "write_index" THEN [raised |-> TRUE, fs |-> f1]
          ELSE [raised |-> FALSE, fs |-> [f1 EXCEPT ![index_filename] = index]]

\* save_index_and_chunks(index, chunks, index_filename, chunks_filename):
\* faiss.write_index first, json.dump second
save_index_and_chunks(f, index, chunks, index_filename, chunks_filename, fault) ==
  IF fault = "write_index" THEN [raised |-> TRUE, fs |-> f]
  ELSE LET f1 == [f EXCEPT ![index_filename] = index]
       IN IF fault = "write_chunks" THEN [raised |-> TRUE, fs |-> f1]
          ELSE [raised |-> FALSE,
                fs |-> [f1 EXCEPT ![chunks_filename] = JsonFile(chunks)]]

-----------------------------------------------------------------------------
(* deep_researcher.py *)

\* what load_existing_index prints
load_existing_index_log(f, index_file, chunks_file) ==
  IF PathExists(f, index_file) /\ PathExists(f, chunks_file)
    THEN IF ReadIndexOk(f, index_file) /\ JsonLoadOk(f, chunks_file)
           THEN "Loaded index"
           ELSE "Error loading existing index"
    ELSE "No existing index found"

\* load_existing_index: both paths must exist; any exception while reading
\* either resets the instance to no index and no documents
load_existing_index(f, dr) ==
  IF PathExists(f, dr.index_file) /\ PathExists(f, dr.chunks_file)
    THEN IF ReadIndexOk(f, dr.index_file) /\ JsonLoadOk(f, dr.chunks_file)
           THEN [dr EXCEPT !.index = f[dr.index_file],
                           !.documents = f[dr.chunks_file].chunks]
           ELSE [dr EXCEPT !.index = NoIndex, !.documents = <<>>]
    ELSE dr

\* DeepResearcher.__init__(model_name, index_file, chunks_file)
DeepResearcherInit(f, model_name, index_file, chunks_file) ==
  load_existing_index(f, [model_name |-> model_name, index |-> NoIndex,
                          documents |-> <<>>, index_file |-> index_file,
                          chunks_file |-> chunks_file])

\* setup_vector_index(embeddings): a new inner-product index
setup_vector_index(dr, embeddings) == [dr EXCEPT !.index = IndexFlatIP(embeddings)]

\* add_documents(documents): the list is extended before the encoding, which
\* may raise; embeddings.shape[1] raises on an empty batch
add_documents(dr, documents, fault) ==
  LET d1 == [dr EXCEPT !.documents = dr.documents \o documents]
      batch == IF d1.index = NoIndex THEN documents ELSE d1.documents
  IN IF fault = "encode" \/ batch = <<>>
       THEN [raised |-> TRUE, dr |-> d1]
       ELSE [raised |-> FALSE, dr |-> setup_vector_index(d1, create_embeddings(batch))]

\* save_index(): skipped without an index or documents; an exception of either
\* write is caught and printed, nothing is raised or returned
save_index(f, dr, fault) ==
  IF dr.index # NoIndex /\ dr.documents # <<>>
    THEN IF fault = "write_index" THEN f
         ELSE LET f1 == [f EXCEPT ![dr.index_file] = dr.index]
              IN IF fault = "write_chunks" THEN f1
                 ELSE [f1 EXCEPT ![dr.chunks_file] = JsonFile(dr.documents)]
    ELSE f

\* what save_index prints
save_index_log(dr, fault) ==
  IF dr.index # NoIndex /\ dr.documents # <<>>
    THEN IF fault \in {"write_index", "write_chunks"} THEN "Error saving index"
         ELSE "Chunks saved"
    ELSE "No index or documents to save"

\* DeepResearcher.build_index_from_chunks(chunks): raises on no chunks and
\* where the encoding raises; otherwise a new inner-product index of the
\* chunks, which become the documents
DeepResearcher_build_index_from_chunks(dr, chunks, fault) ==
  IF chunks = <<>> THEN [error |-> "ValueError", dr |-> dr]
  ELSE IF fault = "encode" THEN [error |-> "RuntimeError", dr |-> dr]
  ELSE [error |-> "none",
        dr |-> [dr EXCEPT !.index = IndexFlatIP(create_embeddings(chunks)),
                          !.documents = chunks]]

\* an answer of a search: the labels of the index and the documents at them
NoAnswer(error) == [error |-> error, labels |-> <<>>, results |-> <<>>]

\* search that answers an object without an index with no results
search_lenient(self, k, ranking) ==
  IF self.index = NoIndex THEN NoAnswer("none")
  ELSE LET labels == IndexSearch(ranking, k)
       IN [error |-> "none", labels |-> labels,
           results |-> [j \in 1..Len(ranking) |-> PyIndex(self.documents, labels[j])]]

\* DeepResearcher.search / search_simple and SearchEngine.search /
\* search_with_scores: ValueError without an index (DeepResearcher; a
\* SearchEngine always has one); the document at every label returned by
\* index.search, in that order
search(self, k, ranking) ==
  IF self.index = NoIndex THEN NoAnswer("ValueError")
  ELSE LET labels == IndexSearch(ranking, k)
       IN IF \A j \in 1..k : PyIndexOk(self.documents, labels[j])
            THEN [error |-> "none", labels |-> labels,
                  results |-> [j \in 1..k |-> PyIndex(self.documents, labels[j])]]
            ELSE NoAnswer("IndexError")

-----------------------------------------------------------------------------
(* search.py *)

\* SearchEngine.__init__: faiss.read_index(index_file), then json.load of
\* chunks_file; the error raised, "none" when both load
SearchEngineInitError(f, index_file, chunks_file) ==
  IF ~ReadIndexOk(f, index_file) THEN "RuntimeError"
  ELSE IF ~PathExists(f, chunks_file) THEN "FileNotFoundError"
  ELSE IF ~JsonLoadOk(f, chunks_file) THEN "JSONDecodeError"
  ELSE "none"

\* the SearchEngine constructed when both files load (self.chunks is the
\* documents field)
SearchEngineInit(f, model_name, index_file, chunks_file) ==
  [model_name |-> model_name, index |-> f[index_file],
   documents |-> f[chunks_file].chunks,
   index_file |-> index_file, chunks_file |-> chunks_file]

-----------------------------------------------------------------------------
(* file_manager.py: the read-only operations, as functions of the state *)

\* list_uploaded_files(): the *.txt entries of the data directory
list_uploaded_files(dir) == SelectSeq([i \in 1..Len(dir) |-> dir[i].name], IsTxt)

None == [none |-> TRUE]

\* get_file_info reporting the number of chunks stored in the chunk-list file
get_file_info_indexed(dir, file_name) ==
  IF ~Exists(dir, file_name) THEN None
  ELSE [name |-> file_name,
        size |-> ReadText(dir, file_name).words,
        chunks |-> IF JsonLoadOk(fs, FMChunksFile) THEN Len(fs[FMChunksFile].chunks) ELSE 0]

\* get_file_info(file_name): None for an absent file, else its size and the
\* number of chunks of its current text
get_file_info(dir, file_name) ==
  IF ~Exists(dir, file_name) THEN None
  ELSE [name |-> file_name,
        size |-> ReadText(dir, file_name).words,
        chunks |-> Len(load_and_chunk_data(dir, file_name, ChunkSize))]

EmptyStats == [empty |-> TRUE]

\* get_index_stats(): counts are read only when both files exist; a file that
\* does not parse raises and {} is returned
get_index_stats(f, dir) ==
  LET index_exists == PathExists(f, FMIndexFile)
      chunks_exists == PathExists(f, FMChunksFile)
  IN IF index_exists /\ chunks_exists
       THEN IF JsonLoadOk(f, FMChunksFile) /\ ReadIndexOk(f, FMIndexFile)
              THEN [index_exists |-> TRUE, chunks_exists |-> TRUE,
                    total_vectors |-> ntotal(f[FMIndexFile]),
                    total_chunks |-> Len(f[FMChunksFile].chunks),
                    uploaded_files |-> Len(list_uploaded_files(dir))]
              ELSE EmptyStats
       ELSE [index_exists |-> index_exists, chunks_exists |-> chunks_exists,
             total_vectors |-> 0, total_chunks |-> 0,
             uploaded_files |-> Len(list_uploaded_files(dir))]

-----------------------------------------------------------------------------
(* file_manager.py: the operations *)

\* a call that returned: ok is the success of the returned value (True, a
\* list, a dict that is not {}); every operation catches Exception, so no call
\* ends any other way
Done(name, arg, ok) == [name |-> name, arg |-> arg, ok |-> ok, escaped |-> FALSE]

\* a call left by an exception, nothing returned
Escaped(name, arg) == [name |-> name, arg |-> arg, ok |-> FALSE, escaped |-> TRUE]

\* upload_file that also indexes what it copied
upload_file_indexing(src, chunk_size) ==
  IF src.kind # "file"
    THEN /\ UNCHANGED <<dataDir, fs>>
         /\ op' = Done("upload", src.path, FALSE)
    ELSE /\ IF Exists(dataDir, src.base)
              THEN dataDir' = [dataDir EXCEPT ![PosOf(dataDir, src.base)].text = src.text]
              ELSE \E k \in 1..(Len(dataDir) + 1) :
                     dataDir' = InsertAt(dataDir, k, [name |-> src.base, text |-> src.text])
         /\ LET chunks == Chunks(src.text, ChunkSize)
            IN fs' = IF chunks = <<>> THEN fs
                     ELSE [fs EXCEPT ![FMIndexFile] = IndexFlatL2(create_embeddings(chunks)),
                                     ![FMChunksFile] = JsonFile(chunks)]
         /\ op' = Done("upload", src.path, TRUE)

\* upload_file that refuses to replace a file of the same name
upload_file_keeping(src, chunk_size) ==
  /\ UNCHANGED fs
  /\ IF src.kind # "file"
       THEN /\ UNCHANGED dataDir
            /\ op' = Done("upload", src.path, FALSE)
       ELSE /\ IF Exists(dataDir, src.base)
                 THEN UNCHANGED dataDir
                 ELSE \E k \in 1..(Len(dataDir) + 1) :
                        dataDir' = InsertAt(dataDir, k, [name |-> src.base, text |-> src.text])
            /\ op' = Done("upload", src.path, TRUE)

\* upload_file(file_path, chunk_size): chunk_size is not used
upload_file(src, chunk_size) ==
  /\ UNCHANGED fs
  /\ IF src.kind = "none"
       THEN /\ UNCHANGED dataDir
            /\ op' = Done("upload", src.path, FALSE)
       ELSE IF src.kind = "dir"
         THEN /\ UNCHANGED dataDir
              /\ op' = Done("upload", src.path, FALSE)
         ELSE /\ IF Exists(dataDir, src.base)
                   THEN dataDir' = [dataDir EXCEPT ![PosOf(dataDir, src.base)].text = src.text]
                   ELSE \E k \in 1..(Len(dataDir) + 1) :
                          dataDir' = InsertAt(dataDir, k, [name |-> src.base, text |-> src.text])
              /\ op' = Done("upload", src.path, TRUE)

\* list_uploaded_files()
ListFiles ==
  /\ UNCHANGED <<dataDir, fs>>
  /\ op' = Done("list", "", TRUE)

\* remove_file that also deletes the persisted pair
remove_file_cascade(file_name) ==
  IF Exists(dataDir, file_name)
    THEN /\ dataDir' = RemoveAt(dataDir, PosOf(dataDir, file_name))
         /\ fs' = [p \in Paths |-> Absent]
         /\ op' = Done("remove", file_name, TRUE)
    ELSE /\ UNCHANGED <<dataDir, fs>>
         /\ op' = Done("remove", file_name, FALSE)

\* remove_file that reports success without the unlink
remove_file_keep(file_name) ==
  /\ UNCHANGED <<dataDir, fs>>
  /\ op' = Done("remove", file_name, Exists(dataDir, file_name))

\* remove_file that unlinks the first listed entry instead of the named one
remove_file_first(file_name) ==
  /\ UNCHANGED fs
  /\ IF Exists(dataDir, file_name)
       THEN /\ dataDir' = Tail(dataDir)
            /\ op' = Done("remove", file_name, TRUE)
       ELSE /\ UNCHANGED dataDir
            /\ op' = Done("remove", file_name, FALSE)

\* remove_file(file_name)
remove_file(file_name) ==
  /\ UNCHANGED fs
  /\ IF Exists(dataDir, file_name)
       THEN /\ dataDir' = RemoveAt(dataDir, PosOf(dataDir, file_name))
            /\ op' = Done("remove", file_name, TRUE)
       ELSE /\ UNCHANGED dataDir
            /\ op' = Done("remove", file_name, FALSE)

\* get_file_info(file_name)
FileInfo(file_name) ==
  /\ UNCHANGED <<dataDir, fs>>
  /\ op' = Done("info", file_name, get_file_info(dataDir, file_name) # None)

\* rebuild_index that persists an empty pair when there is nothing to index
rebuild_index_clearing(fault) ==
  LET chunks == load_all_text_files(dataDir, ChunkSize)
      index == IndexFlatL2(create_embeddings(chunks))
      saved == save_index_and_chunks(fs, index, chunks, FMIndexFile, FMChunksFile, fault)
  IN /\ UNCHANGED dataDir
     /\ IF fault \in {"model", "encode"}
          THEN /\ UNCHANGED fs
               /\ op' = Done("rebuild", "", FALSE)
          ELSE /\ fs' = saved.fs
               /\ op' = Done("rebuild", "", ~saved.raised)

\* rebuild_index that extends the persisted pair instead of replacing it
rebuild_index_appending(fault) ==
  LET chunks == load_all_text_files(dataDir, ChunkSize)
      kept == IF JsonLoadOk(fs, FMChunksFile) THEN fs[FMChunksFile].chunks ELSE <<>>
      built == build_index_from_chunks(kept \o chunks, fault)
      saved == save_index_and_chunks(fs, built.index, built.chunks,
                                     FMIndexFile, FMChunksFile, fault)
  IN /\ UNCHANGED dataDir
     /\ IF chunks = <<>> \/ built.raised
          THEN /\ UNCHANGED fs
               /\ op' = Done("rebuild", "", FALSE)
          ELSE /\ fs' = saved.fs
               /\ op' = Done("rebuild", "", ~saved.raised)

\* rebuild_index that deletes the stored pair before it builds the new one
rebuild_index_wiping(fault) ==
  LET chunks == load_all_text_files(dataDir, ChunkSize)
      built == build_index_from_chunks(chunks, fault)
      wiped == [p \in Paths |-> Absent]
      saved == save_index_and_chunks(wiped, built.index, built.chunks,
                                     FMIndexFile, FMChunksFile, fault)
  IN /\ UNCHANGED dataDir
     /\ IF chunks = <<>>
          THEN /\ UNCHANGED fs
               /\ op' = Done("rebuild", "", FALSE)
          ELSE IF built.raised
            THEN /\ fs' = wiped
                 /\ op' = Done("rebuild", "", FALSE)
            ELSE /\ fs' = saved.fs
                 /\ op' = Done("rebuild", "", ~saved.raised)

\* rebuild_index that catches only the errors of loading and building
rebuild_index_unguarded(fault) ==
  LET chunks == load_all_text_files(dataDir, ChunkSize)
      built == build_index_from_chunks(chunks, fault)
      saved == save_index_and_chunks(fs, built.index, built.chunks,
                                     FMIndexFile, FMChunksFile, fault)
  IN /\ UNCHANGED dataDir
     /\ IF chunks = <<>> \/ built.raised
          THEN /\ UNCHANGED fs
               /\ op' = Done("rebuild", "", FALSE)
          ELSE /\ fs' = saved.fs
               /\ op' = IF saved.raised THEN Escaped("rebuild", "")
                        ELSE Done("rebuild", "", TRUE)

\* rebuild_index()
rebuild_index(fault) ==
  LET chunks == load_all_text_files(dataDir, ChunkSize)
      built == build_index_from_chunks(chunks, fault)
      saved == save_index_and_chunks(fs, built.index, built.chunks,
                                     FMIndexFile, FMChunksFile, fault)
  IN /\ UNCHANGED dataDir
     /\ IF chunks = <<>>
          THEN /\ UNCHANGED fs
               /\ op' = Done("rebuild", "", FALSE)
          ELSE IF built.raised
            THEN /\ UNCHANGED fs
                 /\ op' = Done("rebuild", "", FALSE)
            ELSE /\ fs' = saved.fs
                 /\ op' = Done("rebuild", "", ~saved.raised)

\* add_file_to_index that takes a file without chunks as added
add_file_to_index_lenient(file_name, fault) ==
  LET chunks == load_and_chunk_data(dataDir, file_name, ChunkSize)
      researcher == DeepResearcherInit(fs, FMIndexFile, FMChunksFile, DRDefaultChunksFile)
      added == add_documents(researcher, chunks, fault)
  IN /\ UNCHANGED dataDir
     /\ IF ~Exists(dataDir, file_name)
          THEN /\ UNCHANGED fs
               /\ op' = Done("add", file_name, FALSE)
          ELSE IF chunks = <<>>
            THEN /\ UNCHANGED fs
                 /\ op' = Done("add", file_name, TRUE)
            ELSE IF fault = "model" \/ added.raised
              THEN /\ UNCHANGED fs
                   /\ op' = Done("add", file_name, FALSE)
              ELSE /\ fs' = save_index(fs, added.dr, fault)
                   /\ op' = Done("add", file_name, TRUE)

\* add_file_to_index constructing DeepResearcher(index_file=self.index_file,
\* chunks_file=self.chunks_file): the stored pair is loaded and written back
add_file_to_index_by_keyword(file_name, fault) ==
  LET chunks == load_and_chunk_data(dataDir, file_name, ChunkSize)
      researcher == DeepResearcherInit(fs, "all-MiniLM-L6-v2", FMIndexFile, FMChunksFile)
      added == add_documents(researcher, chunks, fault)
  IN /\ UNCHANGED dataDir
     /\ IF ~Exists(dataDir, file_name)
          THEN /\ UNCHANGED fs
               /\ op' = Done("add", file_name, FALSE)
          ELSE IF chunks = <<>>
            THEN /\ UNCHANGED fs
                 /\ op' = Done("add", file_name, FALSE)
            ELSE IF fault = "model" \/ added.raised
              THEN /\ UNCHANGED fs
                   /\ op' = Done("add", file_name, FALSE)
              ELSE /\ fs' = save_index(fs, added.dr, fault)
                   /\ op' = Done("add", file_name, TRUE)

\* add_file_to_index(file_name).  DeepResearcher(self.index_file,
\* self.chunks_file) passes its two arguments by position: model_name receives
\* the index path, index_file the chunks path, chunks_file keeps its default.
add_file_to_index(file_name, fault) ==
  LET chunks == load_and_chunk_data(dataDir, file_name, ChunkSize)
      researcher == DeepResearcherInit(fs, FMIndexFile, FMChunksFile, DRDefaultChunksFile)
      added == add_documents(researcher, chunks, fault)
  IN /\ UNCHANGED dataDir
     /\ IF ~Exists(dataDir, file_name)
          THEN /\ UNCHANGED fs
               /\ op' = Done("add", file_name, FALSE)
          ELSE IF chunks = <<>>
            THEN /\ UNCHANGED fs
                 /\ op' = Done("add", file_name, FALSE)
            ELSE IF fault = "model" \/ added.raised
              THEN /\ UNCHANGED fs
                   /\ op' = Done("add", file_name, FALSE)
              ELSE /\ fs' = save_index(fs, added.dr, fault)
                   /\ op' = Done("add", file_name, TRUE)

\* get_index_stats that deletes a pair it cannot read
IndexStatsClearing ==
  /\ UNCHANGED dataDir
  /\ fs' = IF get_index_stats(fs, dataDir) = EmptyStats THEN [p \in Paths |-> Absent] ELSE fs
  /\ op' = Done("stats", "", get_index_stats(fs, dataDir) # EmptyStats)

\* get_index_stats()
IndexStats ==
  /\ UNCHANGED <<dataDir, fs>>
  /\ op' = Done("stats", "", get_index_stats(fs, dataDir) # EmptyStats)

-----------------------------------------------------------------------------
(* The system: a fresh FileManager on an empty data directory, no index *)

\* chunk sizes a caller passes to upload
UploadChunkSizes == {0, ChunkSize}

\* the chunker has not been called
NotCalled == [called |-> FALSE]

\* the processes calling rebuild_index, and a process outside a call
Procs == {"p", "q"}

Idle == [pc |-> "idle", chunks |-> <<>>]

\* no DeepResearcher or SearchEngine object has been constructed
NoInstance == [cls |-> "none"]

\* what a call of an object returned (labels, results), raised and printed
Ret(call, error, log, k, answer) ==
  [call |-> call, error |-> error, log |-> log, k |-> k,
   labels |-> answer.labels, results |-> answer.results]

NoCall == Ret("none", "none", "", 0, NoAnswer("none"))

\* ---- enhancements.py: ConversationHistory ----

\* seq[start:] of a Python list: a negative start counts from the end, a start
\* outside the list is clamped to it
PySliceFrom(seq, start) ==
  LET n == Len(seq)
      from == IF start < 0 THEN (IF n + start < 0 THEN 0 ELSE n + start)
              ELSE Min(start, n)
  IN SubSeq(seq, from + 1, n)

\* the history file after json.dump(self.history, f)
HistoryFile(history) == [kind |-> "json", entries |-> history]

\* load_history(): the list in the file, [] when there is none
load_history(file) == IF file = Absent THEN <<>> ELSE file.entries

\* the entry add_entry() makes; timestamps grow with every entry
Entry(history, query) == [timestamp |-> Len(history) + 1, query |-> query]

\* get_recent_conversation(num_entries)
get_recent_conversation(history, num_entries) ==
  IF history # <<>> THEN PySliceFrom(history, -num_entries) ELSE <<>>

\* show_history(limit): the entries a new ConversationHistory() prints
show_history(file, limit) == get_recent_conversation(load_history(file), limit)

\* ConversationHistory() with no history file, nothing asked yet
NoConversation ==
  [history |-> <<>>, file |-> Absent, call |-> "none", num_entries |-> 0, entries |-> <<>>]

Init ==
  /\ dataDir = <<>>
  /\ fs = [p \in Paths |-> Absent]
  /\ op = Done("init", "", TRUE)
  /\ chunker = NotCalled
  /\ inst = NoInstance
  /\ ret = NoCall
  /\ procs = [p \in Procs |-> Idle]
  /\ overlap = FALSE
  /\ conv = NoConversation

Upload ==
  /\ \E src \in Sources, chunk_size \in UploadChunkSizes : upload_file(src, chunk_size)
  /\ UNCHANGED aside

List == ListFiles /\ UNCHANGED aside

Remove ==
  /\ \E file_name \in Names : remove_file(file_name)
  /\ UNCHANGED aside

Info ==
  /\ \E file_name \in Names : FileInfo(file_name)
  /\ UNCHANGED aside

Rebuild ==
  /\ \E fault \in Faults : rebuild_index(fault)
  /\ UNCHANGED aside

AddToIndex ==
  /\ \E file_name \in Names, fault \in Faults : add_file_to_index(file_name, fault)
  /\ UNCHANGED aside

Stats == IndexStats /\ UNCHANGED aside

Next ==
  \/ Upload
  \/ List
  \/ Remove
  \/ Info
  \/ Rebuild
  \/ AddToIndex
  \/ Stats

Spec == Init /\ [][Next]_vars

-----------------------------------------------------------------------------
(* The chunker alone: one text file, chunked with any chunk size *)

\* chunk sizes a caller passes to load_and_chunk_data
TryChunkSizes == (-1)..MaxTryChunk

ChunkInit ==
  /\ \E W \in 0..MaxChunkWords : dataDir = <<[name |-> "a.txt", text |-> Doc(1, W)]>>
  /\ fs = [p \in Paths |-> Absent]
  /\ op = Done("init", "", TRUE)
  /\ chunker = NotCalled
  /\ inst = NoInstance
  /\ ret = NoCall
  /\ procs = [p \in Procs |-> Idle]
  /\ overlap = FALSE
  /\ conv = NoConversation

\* chunks = load_and_chunk_data(file_path, chunk_size): every exception is
\* caught inside, the call always returns a list
ChunkCall(chunk_size) ==
  /\ chunker' = [called |-> TRUE,
                 raised |-> FALSE,
                 text |-> ReadText(dataDir, "a.txt"),
                 chunk_size |-> chunk_size,
                 chunks |-> load_and_chunk_data(dataDir, "a.txt", chunk_size)]
  /\ UNCHANGED <<dataDir, fs, op, inst, ret, procs, overlap, conv>>

ChunkNext == \E chunk_size \in TryChunkSizes : ChunkCall(chunk_size)

ChunkSpec == ChunkInit /\ [][ChunkNext]_vars

-----------------------------------------------------------------------------
(* One DeepResearcher or SearchEngine object and the files it loads and   *)
(* saves                                                                   *)

DefaultModel == "all-MiniLM-L6-v2"

\* the (index_file, chunks_file) an object is constructed with: the defaults,
\* and the pair the positional call of add_file_to_index passes
PathPairs == {<<FMIndexFile, DRDefaultChunksFile>>, <<FMChunksFile, DRDefaultChunksFile>>}

\* the chunk lists handed to an object: the chunks of an empty, a short and a
\* long text
Batches == { Chunks(Doc(1, w), ChunkSize) : w \in {0, ShortWords, ChunkSize + ExtraWords} }

IsResearcher == inst.cls = "DeepResearcher"

\* what the object's operations leave alone
DRFrame == UNCHANGED <<dataDir, op, chunker, procs, overlap, conv>>

\* researcher = DeepResearcher(index_file=..., chunks_file=...)
NewResearcher(paths) ==
  /\ inst' = [cls |-> "DeepResearcher",
              self |-> DeepResearcherInit(fs, DefaultModel, paths[1], paths[2])]
  /\ ret' = Ret("construct", "none", load_existing_index_log(fs, paths[1], paths[2]),
                0, NoAnswer("none"))
  /\ UNCHANGED fs
  /\ DRFrame

\* search_engine = SearchEngine(): the name stays unbound when it raises
NewSearchEngine ==
  LET error == SearchEngineInitError(fs, FMIndexFile, FMChunksFile)
  IN /\ inst' = IF error = "none"
                  THEN [cls |-> "SearchEngine",
                        self |-> SearchEngineInit(fs, DefaultModel, FMIndexFile, FMChunksFile)]
                  ELSE NoInstance
     /\ ret' = Ret("construct", error, "", 0, NoAnswer("none"))
     /\ UNCHANGED fs
     /\ DRFrame

\* researcher.build_index_from_chunks(chunks)
BuildIndex(chunks, fault) ==
  /\ IsResearcher
  /\ LET built == DeepResearcher_build_index_from_chunks(inst.self, chunks, fault)
     IN /\ inst' = [inst EXCEPT !.self = built.dr]
        /\ ret' = Ret("build_index_from_chunks", built.error, "", 0, NoAnswer("none"))
  /\ UNCHANGED fs
  /\ DRFrame

\* researcher.add_documents(documents)
AddDocuments(documents, fault) ==
  /\ IsResearcher
  /\ Len(inst.self.documents) + Len(documents) <= MaxDocs
  /\ LET added == add_documents(inst.self, documents, fault)
     IN /\ inst' = [inst EXCEPT !.self = added.dr]
        /\ ret' = Ret("add_documents",
                      IF ~added.raised THEN "none"
                      ELSE IF fault = "encode" THEN "RuntimeError" ELSE "IndexError",
                      "", 0, NoAnswer("none"))
  /\ UNCHANGED fs
  /\ DRFrame

\* researcher.save_index()
SaveIndex(fault) ==
  /\ IsResearcher
  /\ fs' = save_index(fs, inst.self, fault)
  /\ ret' = Ret("save_index", "none", save_index_log(inst.self, fault), 0, NoAnswer("none"))
  /\ UNCHANGED inst
  /\ DRFrame

\* researcher.search(query, k), search_engine.search(query_text, k)
Search(k) ==
  /\ inst # NoInstance
  /\ \E ranking \in Rankings(IF inst.self.index = NoIndex THEN 0
                               ELSE ntotal(inst.self.index), k) :
       ret' = Ret("search", search(inst.self, k, ranking).error, "", k,
                  search(inst.self, k, ranking))
  /\ UNCHANGED <<fs, inst>>
  /\ DRFrame

Construct == \E paths \in PathPairs : NewResearcher(paths)

Build == \E chunks \in Batches, fault \in {"none", "encode"} : BuildIndex(chunks, fault)

Add == \E documents \in Batches, fault \in {"none", "encode"} : AddDocuments(documents, fault)

Save == \E fault \in {"none", "write_index", "write_chunks"} : SaveIndex(fault)

Query == \E k \in 1..MaxK : Search(k)

ResearchNext ==
  \/ Construct
  \/ Build
  \/ Add
  \/ Save

ResearchSpec == Init /\ [][ResearchNext]_vars

-----------------------------------------------------------------------------
(* Searching: an index of one to MaxSearched one-word chunks is built and  *)
(* saved, and searched through the object that built it or a SearchEngine  *)

BuildSearched == \E n \in 1..MaxSearched : BuildIndex(Chunks(Doc(1, n), 1), "none")

SaveSearched == SaveIndex("none")

SearchNext ==
  \/ Construct
  \/ NewSearchEngine
  \/ BuildSearched
  \/ SaveSearched
  \/ Query

SearchSpec == Init /\ [][SearchNext]_vars

-----------------------------------------------------------------------------
(* rebuild_index called by two processes on the same paths, without a lock: *)
(* the directory is read, the index file written and the chunk-list file    *)
(* written in three steps, between which the other process and uploads run  *)

\* the files uploaded while the processes run
ConcSources == { s \in Sources : s.kind = "file" /\ s.text.words > 0 /\ s.path \in {"/in/a.txt", "/in/b.txt"} }

\* what the steps of a process leave alone
ConcFrame == UNCHANGED <<chunker, inst, ret, conv>>

\* chunks = load_all_text_files(...); False is returned when there are none
RebuildLoad(p) ==
  /\ procs[p].pc = "idle"
  /\ LET chunks == load_all_text_files(dataDir, ChunkSize)
     IN IF chunks = <<>>
          THEN /\ op' = Done("rebuild", "", FALSE)
               /\ UNCHANGED <<procs, overlap>>
          ELSE /\ procs' = [procs EXCEPT ![p] = [pc |-> "loaded", chunks |-> chunks]]
               /\ overlap' = (overlap \/ \E q \in Procs \ {p} : procs[q].pc # "idle")
               /\ UNCHANGED op
  /\ UNCHANGED <<dataDir, fs>>
  /\ ConcFrame

\* the chunk-list write of a save that drops the last chunk
RebuildWriteChunksShort(p) ==
  /\ procs[p].pc = "index written"
  /\ fs' = [fs EXCEPT ![FMChunksFile] =
              JsonFile(SubSeq(procs[p].chunks, 1, Len(procs[p].chunks) - 1))]
  /\ procs' = [procs EXCEPT ![p] = Idle]
  /\ op' = Done("rebuild", "", TRUE)
  /\ UNCHANGED <<dataDir, overlap>>
  /\ ConcFrame

\* build_index_from_chunks(chunks), then the first write of
\* save_index_and_chunks: faiss.write_index(index, index_filename)
RebuildWriteIndex(p) ==
  /\ procs[p].pc = "loaded"
  /\ fs' = [fs EXCEPT ![FMIndexFile] = build_index_from_chunks(procs[p].chunks, "none").index]
  /\ procs' = [procs EXCEPT ![p].pc = "index written"]
  /\ UNCHANGED <<dataDir, op, overlap>>
  /\ ConcFrame

\* the second write of save_index_and_chunks: json.dump(chunks, f); True is
\* returned
RebuildWriteChunks(p) ==
  /\ procs[p].pc = "index written"
  /\ fs' = [fs EXCEPT ![FMChunksFile] = JsonFile(procs[p].chunks)]
  /\ procs' = [procs EXCEPT ![p] = Idle]
  /\ op' = Done("rebuild", "", TRUE)
  /\ UNCHANGED <<dataDir, overlap>>
  /\ ConcFrame

ConcUpload ==
  /\ \E src \in ConcSources : upload_file(src, ChunkSize)
  /\ UNCHANGED aside

ConcLoad == \E p \in Procs : RebuildLoad(p)

ConcWriteIndex == \E p \in Procs : RebuildWriteIndex(p)

ConcWriteChunks == \E p \in Procs : RebuildWriteChunks(p)

ConcNext ==
  \/ ConcUpload
  \/ ConcLoad
  \/ ConcWriteIndex
  \/ ConcWriteChunks

ConcSpec == Init /\ [][ConcNext]_vars

-----------------------------------------------------------------------------
(* HistorySpec: one ConversationHistory object and the history command *)

Queries == {"q1", "q2"}

HistoryFrame == UNCHANGED <<dataDir, fs, op, chunker, inst, ret, procs, overlap>>

\* history.add_entry(query, ...): append, then save_history(), which prints
\* and goes on when the file cannot be written
AddEntry(query, written) ==
  /\ Len(conv.history) < MaxHistory
  /\ LET history == Append(conv.history, Entry(conv.history, query))
     IN conv' = [history |-> history,
                 file |-> IF written THEN HistoryFile(history) ELSE conv.file,
                 call |-> "add_entry",
                 num_entries |-> 0,
                 entries |-> <<>>]
  /\ HistoryFrame

\* entries = history.get_recent_conversation(num_entries)
GetRecent(num_entries) ==
  /\ conv' = [conv EXCEPT !.call = "get_recent_conversation",
                          !.num_entries = num_entries,
                          !.entries = get_recent_conversation(conv.history, num_entries)]
  /\ HistoryFrame

\* cli.py history --limit N
ShowHistory(limit) ==
  /\ conv' = [conv EXCEPT !.call = "show_history",
                          !.num_entries = limit,
                          !.entries = show_history(conv.file, limit)]
  /\ HistoryFrame

Record == \E query \in Queries, written \in BOOLEAN : AddEntry(query, written)

Recent == \E num_entries \in 0..MaxLimit : GetRecent(num_entries)

Show == \E limit \in 0..MaxLimit : ShowHistory(limit)

HistoryNext == Record \/ Recent \/ Show

HistorySpec == Init /\ [][HistoryNext]_vars

-----------------------------------------------------------------------------
(* What the claims speak about *)

IndexOp == op.name \in {"rebuild", "add"}

\* both persisted files are there and parse
PairReadable(f) == ReadIndexOk(f, FMIndexFile) /\ JsonLoadOk(f, FMChunksFile)

PersistedChunks(f) == f[FMChunksFile].chunks

PersistedVectors(f) == f[FMIndexFile].vecs

\* totalVectors and totalChunks of the index statistics
Totals(st) == IF st = EmptyStats THEN <<>> ELSE <<st.total_vectors, st.total_chunks>>

SourceAt(path) == CHOOSE s \in Sources : s.path = path

IsEmptied(text) == text.words = 0

\* the chunks of one text: chunk j holds words (j-1)*c+1 .. min(j*c, W)
ChunksOfText(text, c) ==
  [j \in 1..((text.words + c - 1) \div c) |->
     [doc |-> text.doc, lo |-> (j - 1) * c + 1, hi |-> Min(j * c, text.words)]]

\* the chunks of the first n entries of the directory, *.txt entries only
RECURSIVE ChunksOfDir(_, _)
ChunksOfDir(dir, n) ==
  IF n = 0 THEN <<>>
  ELSE ChunksOfDir(dir, n - 1)
       \o (IF IsTxt(dir[n].name) THEN ChunksOfText(dir[n].text, ChunkSize) ELSE <<>>)

Range(seq) == { seq[i] : i \in 1..Len(seq) }

-----------------------------------------------------------------------------
(* Claims *)

\* C1: after every rebuildIndex or addToIndex call that returns success, the
\* persisted index holds as many vectors as the persisted chunk list holds
\* entries (the statistics report totalVectors = totalChunks).
C1_IndexChunkParity ==
  (IndexOp /\ op.ok /\ PairReadable(fs))
    => LET st == get_index_stats(fs, dataDir)
       IN st.total_vectors = st.total_chunks

\* C2: in every persisted pair a successful rebuildIndex or addToIndex leaves,
\* the vector at position i is the embedding of the chunk at position i.
C2_PositionalCorrespondence ==
  (IndexOp /\ op.ok /\ PairReadable(fs))
    => /\ Len(PersistedVectors(fs)) = Len(PersistedChunks(fs))
       /\ \A i \in 1..Len(PersistedChunks(fs)) :
            PersistedVectors(fs)[i] = Embed(PersistedChunks(fs)[i])

\* C3: remove(filename) leaves both persisted files as they were, so the
\* statistics report the same totalChunks and totalVectors as before it; no
\* operation other than an index operation changes the persisted files, so
\* the chunks of a removed file stay in the chunk list.
C3_RemoveLeavesIndex ==
  [][ /\ op'.name = "remove"
        => /\ fs' = fs
           /\ Totals(get_index_stats(fs', dataDir')) = Totals(get_index_stats(fs, dataDir))
      /\ op'.name \notin {"rebuild", "add"} => fs' = fs ]_vars

\* a.txt was removed and its chunks are still in the persisted chunk list
C3_Witness ==
  /\ op = Done("remove", "a.txt", TRUE)
  /\ ~Exists(dataDir, "a.txt")
  /\ JsonLoadOk(fs, FMChunksFile)
  /\ Range(ChunksOfText(SourceAt("/in/a.txt").text, ChunkSize)) \subseteq Range(PersistedChunks(fs))

\* C4: upload(sourcePath, chunkSize) leaves the persisted index file and
\* chunk-list file exactly as they were, whether it succeeds or fails.
C4_UploadLeavesIndex ==
  [][ op'.name = "upload" => fs' = fs ]_vars

\* a file was uploaded next to a persisted pair that does not hold its chunks
C4_Witness ==
  /\ op = Done("upload", "/in/b.txt", TRUE)
  /\ PairReadable(fs)
  /\ Range(ChunksOfText(SourceAt("/in/b.txt").text, ChunkSize)) \cap Range(PersistedChunks(fs)) = {}

\* C5: after a successful rebuildIndex the persisted chunk list is exactly the
\* concatenation of the chunks (200 words each) of the *.txt files now in the
\* data directory, in listing order, the index holds their embeddings, and no
\* chunk of the list comes from anything but a file now in the directory.
C5_RebuildReplacesPair ==
  (op.name = "rebuild" /\ op.ok)
    => /\ fs[FMChunksFile] = JsonFile(ChunksOfDir(dataDir, Len(dataDir)))
       /\ fs[FMIndexFile] = IndexFlatL2(create_embeddings(ChunksOfDir(dataDir, Len(dataDir))))
       /\ \A c \in Range(PersistedChunks(fs)) :
            \E i \in 1..Len(dataDir) :
              IsTxt(dataDir[i].name) /\ c \in Range(ChunksOfText(dataDir[i].text, ChunkSize))

\* a rebuild over two indexable files, an emptied one aside, and a file that
\* is not *.txt
C5_Witness ==
  /\ op.name = "rebuild" /\ op.ok
  /\ Exists(dataDir, "n.md") /\ Exists(dataDir, "a.txt") /\ Exists(dataDir, "b.txt")
  /\ Len(PersistedChunks(fs)) = 3

\* C6: addToIndex(filename) on an existing file of n > 0 chunks, run against a
\* persisted pair of m chunks, succeeds and leaves a chunk list of m + n
\* entries: the previous list followed by the file's chunks.  Stated here for
\* the calls that return success.
C6_AddAppends ==
  [][ (/\ op'.name = "add" /\ op'.ok
       /\ Exists(dataDir, op'.arg)
       /\ ChunksOfText(ReadText(dataDir, op'.arg), ChunkSize) # <<>>
       /\ PairReadable(fs))
      => fs'[FMChunksFile] =
           JsonFile(PersistedChunks(fs) \o ChunksOfText(ReadText(dataDir, op'.arg), ChunkSize)) ]_vars

\* C7: rebuildIndex on a directory that yields no chunks (no *.txt file, or
\* only ones without a word) returns failure and leaves both persisted files
\* untouched; no index of zero vectors is ever persisted.
C7_RebuildEmptyFails ==
  [][ /\ (/\ op'.name = "rebuild"
          /\ \A i \in 1..Len(dataDir) : IsTxt(dataDir[i].name) => IsEmptied(dataDir[i].text))
         => (~op'.ok /\ fs' = fs)
      /\ ReadIndexOk(fs', FMIndexFile) => ntotal(fs'[FMIndexFile]) > 0
      /\ JsonLoadOk(fs', FMChunksFile) => PersistedChunks(fs') # <<>> ]_vars

\* a failed rebuild over a directory holding only an emptied b.txt and a file
\* that is not *.txt, with a pair persisted before
C7_Witness ==
  /\ op = Done("rebuild", "", FALSE)
  /\ DirNames(dataDir) = {"b.txt", "n.md"}
  /\ IsEmptied(ReadText(dataDir, "b.txt"))
  /\ PairReadable(fs)

\* C8: addToIndex(filename) returns failure when the file is not in the data
\* directory and when the file has no chunk, and leaves both persisted files
\* as they were.
C8_AddRejects ==
  [][ (/\ op'.name = "add"
       /\ \/ ~Exists(dataDir, op'.arg)
          \/ IsEmptied(ReadText(dataDir, op'.arg)))
      => (~op'.ok /\ fs' = fs) ]_vars

\* addToIndex was refused for the emptied b.txt, next to a persisted pair
C8_Witness ==
  /\ op = Done("add", "b.txt", FALSE)
  /\ Exists(dataDir, "b.txt")
  /\ IsEmptied(ReadText(dataDir, "b.txt"))
  /\ PairReadable(fs)

\* C9: after a successful upload of a *.txt file its base name is listed;
\* after a successful remove the name is not listed and fileInfo returns
\* None; an empty directory lists nothing.
C9_UploadListRoundTrip ==
  /\ (op.name = "upload" /\ op.ok /\ IsTxt(SourceAt(op.arg).base))
       => SourceAt(op.arg).base \in Range(list_uploaded_files(dataDir))
  /\ (op.name = "remove" /\ op.ok)
       => /\ op.arg \notin Range(list_uploaded_files(dataDir))
          /\ get_file_info(dataDir, op.arg) = None
  /\ dataDir = <<>> => list_uploaded_files(dataDir) = <<>>

\* b.txt was removed while another *.txt file stays listed
C9_Witness ==
  /\ op = Done("remove", "b.txt", TRUE)
  /\ list_uploaded_files(dataDir) = <<"a.txt">>

\* C10: remove(filename) of a name not in the data directory returns failure
\* and leaves the directory as it was; of a name in it, returns success and
\* deletes that entry and no other.
C10_RemoveExactlyOne ==
  [][ op'.name = "remove"
      => LET file_name == op'.arg
         IN IF Exists(dataDir, file_name)
              THEN /\ op'.ok
                   /\ dataDir' = SelectSeq(dataDir, LAMBDA e : e.name # file_name)
                   /\ Len(dataDir') = Len(dataDir) - 1
              ELSE ~op'.ok /\ dataDir' = dataDir ]_vars

\* one of three entries was removed
C10_Witness ==
  /\ op.name = "remove" /\ op.ok
  /\ Len(dataDir) = 2
  /\ DirNames(dataDir) \cup {op.arg} = {"a.txt", "b.txt", "n.md"}

\* C11: two consecutive successful rebuildIndex calls, the data directory not
\* changed in between, leave the persisted index (so totalVectors) and the
\* persisted chunk list as the first call left them.
C11_RebuildIdempotent ==
  [][ (/\ op.name = "rebuild" /\ op.ok
       /\ op'.name = "rebuild" /\ op'.ok)
      => /\ fs' = fs
         /\ Totals(get_index_stats(fs', dataDir')) = Totals(get_index_stats(fs, dataDir)) ]_vars

\* a successful rebuild over two indexable files was made, and a second
\* successful rebuild can follow it at once
C11_Witness ==
  /\ op.name = "rebuild" /\ op.ok
  /\ Len(PersistedChunks(fs)) = 3
  /\ ENABLED (rebuild_index("none") /\ op'.ok)

\* the words of a run, one by one
WordsOf(run) == [i \in 1..WordCount(run) |-> <<run.doc, run.lo + i - 1>>]

\* the words of the chunks of a list, concatenated in order
RECURSIVE ConcatWords(_)
ConcatWords(chunks) ==
  IF chunks = <<>> THEN <<>> ELSE WordsOf(Head(chunks)) \o ConcatWords(Tail(chunks))

\* C12: for a text of W words and a chunk size c > 0 the chunker returns
\* ceil(W / c) chunks whose words, concatenated in order, are the words of the
\* text (no chunk for W = 0).
C12_ChunkCountLaw ==
  (chunker.called /\ chunker.chunk_size > 0)
    => /\ Len(chunker.chunks) =
            (chunker.text.words + chunker.chunk_size - 1) \div chunker.chunk_size
       /\ ConcatWords(chunker.chunks) = WordsOf(Split(chunker.text))
       /\ chunker.text.words = 0 => chunker.chunks = <<>>

\* a text whose last chunk is a remainder: 11 words in chunks of 4
C12_Witness ==
  /\ chunker.called
  /\ chunker.text.words = 11 /\ chunker.chunk_size = 4
  /\ Len(chunker.chunks) = 3

\* C13: a search for k results in an index of n vectors, 0 < n < k, returns
\* exactly n results, each a different position of the index, none padded or
\* repeated.
C13_SearchResultBound ==
  [][ (/\ ret'.call = "search" /\ ret'.error = "none"
       /\ ntotal(inst'.self.index) < ret'.k)
      => /\ Len(ret'.results) = ntotal(inst'.self.index)
         /\ \A i \in 1..Len(ret'.labels) :
              /\ ret'.labels[i] \in 0..(ntotal(inst'.self.index) - 1)
              /\ \A j \in 1..Len(ret'.labels) : i # j => ret'.labels[i] # ret'.labels[j] ]_vars

\* the object has nothing to search: no index, or an index of no vector
IndexEmpty(self) == IF self.index = NoIndex THEN TRUE ELSE ntotal(self.index) = 0

\* C14: a search on an object whose index is empty (none built or loaded, or
\* one of zero vectors) fails with the error of an empty index and returns no
\* result; a SearchEngine is not even constructed without a loadable pair.
C14_SearchEmptyFails ==
  [][ /\ (ret'.call = "search" /\ IndexEmpty(inst'.self))
         => (ret'.error = "ValueError" /\ ret'.results = <<>>)
      /\ (ret'.call = "construct" /\ ~PairReadable(fs') /\ inst'.cls # "DeepResearcher")
         => (ret'.error # "none" /\ inst' = NoInstance) ]_vars

\* a DeepResearcher constructed where no pair is stored, then searched
C14_Witness ==
  /\ ret.call = "search" /\ ret.error = "ValueError"
  /\ inst.cls = "DeepResearcher" /\ inst.self.index = NoIndex

\* C15: indexStats is read-only: a call leaves the data directory, the index
\* file and the chunk-list file as they were, also when one of the two files
\* is missing or cannot be read.
C15_StatsReadOnly ==
  [][ op'.name = "stats" => (dataDir' = dataDir /\ fs' = fs) ]_vars

\* statistics asked while both files exist and the chunk-list file does not
\* parse: the call returned {}
C15_Witness ==
  /\ op.name = "stats" /\ ~op.ok
  /\ PathExists(fs, FMIndexFile) /\ ~JsonLoadOk(fs, FMChunksFile)
  /\ get_index_stats(fs, dataDir) = EmptyStats

\* C16: loading the persisted pair succeeds only if both files exist and
\* parse; with exactly one file missing, or one that does not parse, the load
\* reports a failure that differs from what it reports where no index was ever
\* built.
C16_LoadDistinguishes ==
  [][ (ret'.call = "construct" /\ inst'.cls = "DeepResearcher")
      => LET index_file == inst'.self.index_file
             chunks_file == inst'.self.chunks_file
             both == ReadIndexOk(fs', index_file) /\ JsonLoadOk(fs', chunks_file)
             neither == ~PathExists(fs', index_file) /\ ~PathExists(fs', chunks_file)
             never_built == [p \in Paths |-> Absent]
         IN /\ inst'.self.index # NoIndex => both
            /\ (~both /\ ~neither)
                 => ret'.log # load_existing_index_log(never_built, index_file, chunks_file) ]_vars

\* C17: every FileManager operation returns a value whatever fails inside it
\* (file system, embedding, index library): no exception escapes to the caller.
C17_NoExceptionEscapes ==
  /\ ~op.escaped
  /\ op.ok \in BOOLEAN

\* a rebuild whose second write raised: the index file is new, the chunk list
\* was not written, and the call returned False
C17_Witness ==
  /\ op.name = "rebuild" /\ ~op.ok
  /\ ReadIndexOk(fs, FMIndexFile)
  /\ ~PathExists(fs, FMChunksFile)

\* C18: a rebuildIndex or addToIndex call that returns failure leaves the index
\* file and the chunk-list file as they were before the call; the one
\* exception is a failure between the two writes of the save, which leaves the
\* new index file beside the untouched chunk-list file.
C18_FailureLeavesPair ==
  [][ (op'.name \in {"rebuild", "add"} /\ ~op'.ok)
      => \/ fs' = fs
         \/ /\ op'.name = "rebuild"
            /\ fs'[FMChunksFile] = fs[FMChunksFile]
            /\ fs'[FMIndexFile] =
                 IndexFlatL2(create_embeddings(load_all_text_files(dataDir, ChunkSize))) ]_vars

\* an add of an uploaded file with text failed (the model load or the encoding
\* raised) where a pair is stored
C18_Witness ==
  /\ op.name = "add" /\ ~op.ok
  /\ Exists(dataDir, op.arg)
  /\ load_and_chunk_data(dataDir, op.arg, ChunkSize) # <<>>
  /\ PairReadable(fs)

\* C19: the save writes the index file first and the chunk-list file second and
\* rolls nothing back: whatever a rebuild changes, the index file is the new
\* index; the chunk list is the new one or, when the save failed after the
\* first write, still the old (or absent) one.
C19_IndexFirstNoRollback ==
  [][ (op'.name = "rebuild" /\ fs' # fs)
      => LET chunks == load_all_text_files(dataDir, ChunkSize)
         IN /\ fs'[FMIndexFile] = IndexFlatL2(create_embeddings(chunks))
            /\ fs'[FMChunksFile] \in {JsonFile(chunks), fs[FMChunksFile]}
            /\ ~op'.ok => fs'[FMChunksFile] = fs[FMChunksFile] ]_vars

\* a failed rebuild left a new index beside an older chunk list of another
\* length
C19_Witness ==
  /\ op.name = "rebuild" /\ ~op.ok
  /\ PairReadable(fs)
  /\ ntotal(fs[FMIndexFile]) # Len(PersistedChunks(fs))

Quiescent == \A p \in Procs : procs[p].pc = "idle"

\* C20: without a lock, two rebuilds running concurrently on the same paths
\* can leave a persisted pair of different lengths (C20_Witness is such a state
\* with both calls completed); rebuilds that never overlap cannot: after them
\* the pair is absent or holds as many vectors as chunks, the vectors of those
\* chunks.
C20_OnlyOverlapBreaksPair ==
  (Quiescent /\ ~overlap)
    => \/ \A path \in Paths : ~PathExists(fs, path)
       \/ /\ PairReadable(fs)
          /\ PersistedVectors(fs) = create_embeddings(PersistedChunks(fs))

\* both calls have returned, and the index holds another number of vectors
\* than the chunk list has chunks
C20_Witness ==
  /\ Quiescent /\ overlap
  /\ op.name = "rebuild" /\ op.ok
  /\ PairReadable(fs)
  /\ ntotal(fs[FMIndexFile]) # Len(PersistedChunks(fs))

C22_BadChunkSizeFails ==
  (chunker.called /\ chunker.chunk_size <= 0)
    => (chunker.raised /\ chunker.chunks # Chunks(Doc(1, 0), ChunkSize))

\* how often a name occurs in a listing
Occurrences(seq, name) == Cardinality({ i \in 1..Len(seq) : seq[i] = name })

\* C23: upload stores the file under its base name and overwrites: a
\* successful upload of a source whose base name is already held by a file of
\* other content leaves exactly one file of that name, listed once, with the
\* content of the source just uploaded.
C23_UploadOverwrites ==
  [][ (/\ op'.name = "upload" /\ op'.ok
       /\ Exists(dataDir, SourceAt(op'.arg).base)
       /\ ReadText(dataDir, SourceAt(op'.arg).base) # SourceAt(op'.arg).text)
      => LET src == SourceAt(op'.arg)
         IN /\ Cardinality({ i \in 1..Len(dataDir') : dataDir'[i].name = src.base }) = 1
            /\ Occurrences(list_uploaded_files(dataDir'), src.base) = 1
            /\ ReadText(dataDir', src.base) = src.text
            /\ get_file_info(dataDir', src.base).size = src.text.words ]_vars

\* /alt/b.txt was uploaded over the b.txt of /in/b.txt, whose chunk is still
\* in the index of an earlier rebuild
C23_Witness ==
  /\ op = Done("upload", "/alt/b.txt", TRUE)
  /\ ReadText(dataDir, "b.txt") = SourceAt("/alt/b.txt").text
  /\ PairReadable(fs)
  /\ \E i \in 1..Len(PersistedChunks(fs)) :
       PersistedChunks(fs)[i].doc = SourceAt("/in/b.txt").text.doc

\* C24: for every text and chunk size c > 0, every chunk but the last holds
\* exactly c words, the last holds between 1 and c words, and no chunk is
\* empty.
C24_ChunkSizes ==
  (chunker.called /\ chunker.chunk_size > 0)
    => \A j \in 1..Len(chunker.chunks) :
         /\ WordCount(chunker.chunks[j]) >= 1
         /\ WordCount(chunker.chunks[j]) <= chunker.chunk_size
         /\ j < Len(chunker.chunks) => WordCount(chunker.chunks[j]) = chunker.chunk_size

\* 7 words in chunks of 3: two full chunks and a last chunk of one word
C24_Witness ==
  /\ chunker.called
  /\ chunker.text.words = 7 /\ chunker.chunk_size = 3
  /\ Len(chunker.chunks) = 3
  /\ WordCount(chunker.chunks[3]) = 1

\* C25: fileInfo's chunk count is recomputed from the file's current content
\* and is not tied to the index: when an upload overwrites a file by a text of
\* another number of chunks, fileInfo reports the new number while indexStats
\* reports the counts it reported before the overwrite.
C25_FileInfoRecomputed ==
  [][ (/\ op'.name = "upload" /\ op'.ok
       /\ Exists(dataDir, SourceAt(op'.arg).base)
       /\ Len(Chunks(ReadText(dataDir, SourceAt(op'.arg).base), ChunkSize))
            # Len(Chunks(SourceAt(op'.arg).text, ChunkSize)))
      => LET src == SourceAt(op'.arg)
         IN /\ get_file_info(dataDir', src.base).chunks = Len(Chunks(src.text, ChunkSize))
            /\ get_file_info(dataDir', src.base).chunks # get_file_info(dataDir, src.base).chunks
            /\ Totals(get_index_stats(fs', dataDir')) = Totals(get_index_stats(fs, dataDir)) ]_vars

\* fileInfo asked for b.txt after it was indexed with one chunk and then
\* overwritten by an empty text: no chunk reported, one chunk and one vector in
\* the index statistics
C25_Witness ==
  /\ op = Done("info", "b.txt", TRUE)
  /\ get_file_info(dataDir, "b.txt").chunks = 0
  /\ get_index_stats(fs, dataDir) # EmptyStats
  /\ Totals(get_index_stats(fs, dataDir)) = <<1, 1>>
  /\ PersistedChunks(fs)[1].doc = SourceAt("/in/b.txt").text.doc

\* C26: addToIndex reads the stored pair from, and writes the extended pair to,
\* the FileManager's index_file and chunks_file: whenever it writes, the index
\* file receives the index (the vectors of the added file last), the
\* chunk-list file receives nothing but a chunk list, and the chunk list read
\* before is the beginning of the one written.
C26_AddUsesConfiguredPaths ==
  [][ (op'.name = "add" /\ fs' # fs)
      => /\ ReadIndexOk(fs', FMIndexFile)
         /\ LET added == create_embeddings(load_and_chunk_data(dataDir, op'.arg, ChunkSize))
                vecs == PersistedVectors(fs')
            IN /\ Len(vecs) >= Len(added)
               /\ SubSeq(vecs, Len(vecs) - Len(added) + 1, Len(vecs)) = added
         /\ ~ReadIndexOk(fs', FMChunksFile)
         /\ (PairReadable(fs) /\ JsonLoadOk(fs', FMChunksFile))
              => SubSeq(PersistedChunks(fs'), 1, Len(PersistedChunks(fs))) = PersistedChunks(fs) ]_vars

\* C27: addToIndex returns success only if the save wrote the extended pair.
\* Stated for the chunk-list file: after a successful add it holds a chunk
\* list that ends with the chunks of the added file.
C27_AddSuccessMeansSaved ==
  [][ (op'.name = "add" /\ op'.ok)
      => LET added == load_and_chunk_data(dataDir, op'.arg, ChunkSize)
         IN /\ JsonLoadOk(fs', FMChunksFile)
            /\ Len(PersistedChunks(fs')) >= Len(added)
            /\ SubSeq(PersistedChunks(fs'),
                      Len(PersistedChunks(fs')) - Len(added) + 1,
                      Len(PersistedChunks(fs'))) = added ]_vars

\* the in-memory index of a DeepResearcher has one vector per document
InMemoryParity(self) ==
  IF self.index = NoIndex THEN self.documents = <<>>
  ELSE ntotal(self.index) = Len(self.documents)

\* C28: in a DeepResearcher the document list and the index have the same
\* length after every add_documents and build_index_from_chunks call, also one
\* in which the embedding fails; a failed add_documents leaves both as they
\* were before the call.
C28_InMemoryParity ==
  [][ (ret'.call \in {"add_documents", "build_index_from_chunks"})
      => /\ InMemoryParity(inst.self) => InMemoryParity(inst'.self)
         /\ (ret'.call = "add_documents" /\ ret'.error # "none") => inst' = inst ]_vars

\* C29: addToIndex does no deduplication.  Every successful addToIndex of a
\* file of n chunks extends the persisted chunk list by n entries, each chunk
\* of the file gaining one occurrence, so that two calls for the same unchanged
\* file extend it by 2n and add the file's chunks twice.
C29_AddAppendsAgain ==
  [][ (op'.name = "add" /\ op'.ok /\ JsonLoadOk(fs, FMChunksFile) /\ JsonLoadOk(fs', FMChunksFile))
      => LET added == load_and_chunk_data(dataDir, op'.arg, ChunkSize)
             before == PersistedChunks(fs)
             after == PersistedChunks(fs')
         IN /\ Len(after) = Len(before) + Len(added)
            /\ \A c \in Range(added) :
                 Occurrences(after, c) = Occurrences(before, c) + Occurrences(added, c) ]_vars

\* the last m entries of a list, in the order of the list
LastEntries(seq, m) == SubSeq(seq, Len(seq) - m + 1, Len(seq))

\* C30: get_recent_conversation(n) returns, for every n >= 0 and every history
\* of length h, the last min(n, h) entries in insertion order; with n = 0 it
\* returns none, and `history --limit 0` shows none.
C30_RecentIsLastMin ==
  /\ conv.call = "get_recent_conversation"
       => conv.entries = LastEntries(conv.history, Min(conv.num_entries, Len(conv.history)))
  /\ (conv.call = "show_history" /\ conv.num_entries = 0) => conv.entries = <<>>

====
